---- MODULE Spec2Model ----
(***************************************************************************)
(* solcix: the version resolver (solcix/resolver.py) over the release      *)
(* catalog served by solcix/installer.py, with the Version value type of   *)
(* solcix/datatypes/datatypes.py; the installer (solcix/installer.py) and  *)
(* the manager (solcix/manage/manage.py) over the artifact directory and   *)
(* the files and the variable that pin the current version.                *)
(*                                                                         *)
(* Python strings are sequences of one-character strings, so that          *)
(* formatting (f"{major}.{minor}.{patch}"), parsing (str.split, int) and   *)
(* the version regular expression are computed, not assumed.  None is the  *)
(* empty sequence wherever a tuple or a string may be None.                *)
(***************************************************************************)
EXTENDS Integers, Sequences, FiniteSets, TLC

(***************************************************************************)
(* Bounds of the model.                                                    *)
(***************************************************************************)
\* The highest patch number of a release or of a pragma.
MaxPatch == 2
\* The most releases the two release lists hold together.
MaxReleases == 2
\* The most comment lines a source file holds before its first declaration.
MaxPreamble == 1
\* The most versions one call of the installer is handed.
MaxRequested == 2
\* sys.getrecursionlimit(), counted in calls of switch_local_version or
\* switch_global_version.
RecursionLimit == 3

\* The (major, minor) series of the model: 0.3 and 0.4 hold the platforms'
\* earliest releases (constant.py 12-15), 1.0 is the first series of the
\* next major.
Series == {<<0, 3>>, <<0, 4>>, <<1, 0>>}

\* The (major, minor, patch) triples of the model.
Triples == {<<s[1], s[2], p>> : s \in Series, p \in 0..MaxPatch}

\* Releases whose order as numbers is not their order as strings.
OrderingTriples == {<<0, 4, 9>>, <<0, 4, 10>>, <<0, 9, 0>>, <<0, 10, 0>>}

(***************************************************************************)
(* Strings.                                                                *)
(***************************************************************************)
DigitChars == <<"0", "1", "2", "3", "4", "5", "6", "7", "8", "9">>

IsDigit(c) == \E i \in 1..10 : DigitChars[i] = c

DigitValue(c) == (CHOOSE i \in 1..10 : DigitChars[i] = c) - 1

\* format(n) of a Python int inside an f-string: decimal, "-" for negatives.
RECURSIVE IntToStr(_)
IntToStr(n) ==
    IF n < 0 THEN <<"-">> \o IntToStr(0 - n)
    ELSE IF n < 10 THEN <<DigitChars[n + 1]>>
    ELSE IntToStr(n \div 10) \o <<DigitChars[(n % 10) + 1]>>

\* Variant of StrToInt: the value of the last digit alone.
StrToIntOfLastDigit(s) ==
    IF s = <<>> THEN 0 ELSE DigitValue(s[Len(s)])

\* int(s) for a string of decimal digits (surrounding whitespace is stripped).
RECURSIVE StrToInt(_)
StrToInt(s) ==
    IF s = <<>> THEN 0
    ELSE IF s[Len(s)] = "\n" THEN StrToInt(SubSeq(s, 1, Len(s) - 1))
    ELSE StrToInt(SubSeq(s, 1, Len(s) - 1)) * 10 + DigitValue(s[Len(s)])

\* s.split(".")
RECURSIVE SplitFrom(_, _, _)
SplitFrom(s, i, part) ==
    IF i > Len(s) THEN <<part>>
    ELSE IF s[i] = "." THEN <<part>> \o SplitFrom(s, i + 1, <<>>)
    ELSE SplitFrom(s, i + 1, Append(part, s[i]))

Split(s) == SplitFrom(s, 1, <<>>)

\* f"{major}.{minor}.{patch}"
FormatVersion(major, minor, patch) ==
    IntToStr(major) \o <<".">> \o IntToStr(minor) \o <<".">> \o IntToStr(patch)

\* re.match(r"^\d+\.\d+\.\d+$", version): "$" also matches before one
\* trailing newline.
is_valid_version(version) ==
    LET body == IF version # <<>> /\ version[Len(version)] = "\n"
                THEN SubSeq(version, 1, Len(version) - 1)
                ELSE version
        parts == Split(body)
    IN  /\ Len(parts) = 3
        /\ \A i \in 1..3 :
              /\ parts[i] # <<>>
              /\ \A j \in 1..Len(parts[i]) : IsDigit(parts[i][j])

(***************************************************************************)
(* class Version                                                           *)
(***************************************************************************)
\* Version.__init__ for a string that passes the assertion.
Version(version) ==
    LET parts == Split(version)
    IN  [major |-> StrToInt(parts[1]),
         minor |-> StrToInt(parts[2]),
         patch |-> StrToInt(parts[3])]

\* Variant of TupleLess: (a1, a2, a3) <= (b1, b2, b3)
TupleLessOrEqual(a, b) ==
    \/ a[1] < b[1]
    \/ a[1] = b[1] /\ a[2] < b[2]
    \/ a[1] = b[1] /\ a[2] = b[2] /\ a[3] <= b[3]

\* Python's tuple comparison (a1, a2, a3) < (b1, b2, b3)
TupleLess(a, b) ==
    \/ a[1] < b[1]
    \/ a[1] = b[1] /\ a[2] < b[2]
    \/ a[1] = b[1] /\ a[2] = b[2] /\ a[3] < b[3]

AsTuple(v) == <<v.major, v.minor, v.patch>>

Version__eq__(self, value) ==
    self.major = value.major /\ self.minor = value.minor /\ self.patch = value.patch

Version__ne__(self, value) ==
    self.major # value.major \/ self.minor # value.minor \/ self.patch # value.patch

\* Variant of Version__lt__: (major, minor) are compared, the patch is not.
Version__lt__ByMajorMinor(self, value) ==
    \/ self.major < value.major
    \/ self.major = value.major /\ self.minor < value.minor

Version__lt__(self, value) == TupleLess(AsTuple(self), AsTuple(value))

Version__gt__(self, value) == TupleLess(AsTuple(value), AsTuple(self))

Version__le__(self, value) ==
    TupleLess(AsTuple(self), AsTuple(value)) \/ AsTuple(self) = AsTuple(value)

Version__ge__(self, value) ==
    TupleLess(AsTuple(value), AsTuple(self)) \/ AsTuple(self) = AsTuple(value)

\* Variant of Version__xor__: ">" on the patch where the code has ">=".
Version__xor__Strict(self, value) ==
    self.major = value.major /\ self.minor = value.minor /\ self.patch > value.patch

Version__xor__(self, value) ==
    self.major = value.major /\ self.minor = value.minor /\ self.patch >= value.patch

\* Variant of Version__repr__: f"{self.major}.{self.minor}", the patch left
\* out.
Version__repr__WithoutPatch(self) ==
    IntToStr(self.major) \o <<".">> \o IntToStr(self.minor)

Version__repr__(self) == FormatVersion(self.major, self.minor, self.patch)

(***************************************************************************)
(* Platforms and the release list (solcix/constant.py, installer.py)       *)
(***************************************************************************)
Platforms == {"LINUX", "MACOS", "WINDOWS"}

\* class EarliestRelease
EarliestRelease(p) ==
    IF p = "MACOS" THEN <<"0", ".", "3", ".", "6">>
    ELSE IF p = "LINUX" THEN <<"0", ".", "4", ".", "0">>
    ELSE <<"0", ".", "4", ".", "1">>

get_earliest_release(p) == EarliestRelease(p)

\* Version(version) <= Version("0.4.10") on Linux: the releases served by
\* the second (older) list.
_is_older_linux(p, version) ==
    /\ p = "LINUX"
    /\ Version__le__(Version(version), Version(<<"0", ".", "4", ".", "1", "0">>))

\* The version strings a release list of the model may hold as keys.
ReleaseKeys ==
    {FormatVersion(t[1], t[2], t[3]) : t \in Triples}

OrderingKeys ==
    {FormatVersion(t[1], t[2], t[3]) : t \in OrderingTriples}

NewestKey(keys) ==
    CHOOSE k \in keys : \A o \in keys : Version__le__(Version(o), Version(k))

\* list.json of the platform: its "releases" keys, taken from keys, and its
\* "latestRelease", the newest of them.
ListBodies(keys) ==
    {[releases |-> r, latestRelease |-> NewestKey(r)] :
        r \in {x \in SUBSET keys : x # {} /\ Cardinality(x) <= MaxReleases}}

\* list.json of the older Linux builds: its "releases" keys, taken from
\* keys.  The other platforms read no second list.
ExtraBodies(p, keys) ==
    IF p = "LINUX"
    THEN {x \in SUBSET {k \in keys : _is_older_linux(p, k)} :
              Cardinality(x) <= MaxReleases}
    ELSE {{}}

\* Order of strings, character by character ("." sorts before the digits).
CharCode(c) == IF c = "." THEN 0 ELSE DigitValue(c) + 1

RECURSIVE StrLess(_, _)
StrLess(a, b) ==
    IF b = <<>> THEN FALSE
    ELSE IF a = <<>> THEN TRUE
    ELSE IF CharCode(Head(a)) # CharCode(Head(b))
    THEN CharCode(Head(a)) < CharCode(Head(b))
    ELSE StrLess(Tail(a), Tail(b))

\* Variant of SortedByVersion: sorted(releases.items()), the keys compared
\* as strings.
RECURSIVE SortedByText(_)
SortedByText(keys) ==
    IF keys = {} THEN <<>>
    ELSE LET first == CHOOSE k \in keys : \A o \in keys : ~StrLess(o, k)
         IN  <<first>> \o SortedByText(keys \ {first})

\* sorted(releases.items(), key=lambda x: Version(x[0])): ascending, by the
\* comparison methods of Version.
RECURSIVE SortedByVersion(_)
SortedByVersion(keys) ==
    IF keys = {} THEN <<>>
    ELSE LET first == CHOOSE k \in keys :
                          \A o \in keys : ~Version__lt__(Version(o), Version(k))
         IN  <<first>> \o SortedByVersion(keys \ {first})

\* get_available_versions() when nothing is cached: the keys of the merged
\* release dict in iteration order, and the latest version.
get_available_versions(p, body, extra) ==
    [releases |-> SortedByVersion(body.releases \cup extra),
     latest   |-> body.latestRelease]

\* Every (releases, latest) a platform can be served from keys, within the
\* bounds.
AvailableFrom(keys) ==
    [p \in Platforms |->
        {get_available_versions(p, b, e) :
            <<b, e>> \in {x \in ListBodies(keys) \X ExtraBodies(p, keys) :
                            Cardinality(x[1].releases \cup x[2]) <= MaxReleases}}]

Available == AvailableFrom(ReleaseKeys)

AvailableOrdering == AvailableFrom(OrderingKeys)

\* _get_version_dict(releases): the nested defaultdict major -> minor ->
\* patch, as the keys present at each level.
_get_version_dict(releases) ==
    LET triples == {AsTuple(Version(releases[i])) : i \in 1..Len(releases)}
    IN  [majors  |-> {t[1] : t \in triples},
         minors  |-> {<<t[1], t[2]>> : t \in triples},
         patches |-> triples]

\* version_dict[major]: a missing key is created by the lookup.
LookupMajor(vd, major) == [vd EXCEPT !.majors = @ \cup {major}]

\* version_dict[major][minor]: missing keys are created by the lookup.
LookupMinor(vd, major, minor) ==
    [vd EXCEPT !.majors = @ \cup {major}, !.minors = @ \cup {<<major, minor>>}]

MinorsOf(vd, major) == {t[2] : t \in {x \in vd.minors : x[1] = major}}

PatchesOf(vd, major, minor) ==
    {t[3] : t \in {x \in vd.patches : x[1] = major /\ x[2] = minor}}

\* get_version_objects(releases)
get_version_objects(releases) == [i \in 1..Len(releases) |-> Version(releases[i])]

SetMax(S) == CHOOSE x \in S : \A y \in S : y <= x

SetMin(S) == CHOOSE x \in S : \A y \in S : x <= y

(***************************************************************************)
(* Pragmas and results (solcix/resolver.py)                                *)
(*                                                                         *)
(* A clause is <<operator, major, minor, patch>>; a pragma is None (<<>>), *)
(* (clause, None) (<<clause>>) or (clause, clause).                        *)
(***************************************************************************)
None == <<>>

OpExact == <<>>
OpCaret == <<"^">>
OpGt == <<">">>
OpGe == <<">", "=">>
OpLt == <<"<">>
OpLe == <<"<", "=">>

ReturnNone    == [kind |-> "None",  str |-> <<>>, list |-> <<>>, error |-> ""]
ReturnStr(s)  == [kind |-> "str",   str |-> s,    list |-> <<>>, error |-> ""]
ReturnList(l) == [kind |-> "list",  str |-> <<>>, list |-> l,    error |-> ""]
Raise(e)      == [kind |-> "raise", str |-> <<>>, list |-> <<>>, error |-> e]

\* [str(x) for x in versions if ...], kept being the versions that pass the test
Comprehension(kept) ==
    [i \in 1..Len(kept) |-> Version__repr__(kept[i])]

\* Variant of SingleClauseTest: "<" keeps the bound itself, as "<=" does.
SingleClauseTestLtClosed(first_operator, first_version, x) ==
    IF first_operator = OpCaret THEN Version__xor__(x, first_version)
    ELSE IF first_operator = OpGe THEN Version__ge__(x, first_version)
    ELSE IF first_operator = OpLe THEN Version__le__(x, first_version)
    ELSE IF first_operator = OpGt THEN Version__gt__(x, first_version)
    ELSE IF first_operator = OpLt THEN Version__le__(x, first_version)
    ELSE FALSE

\* resolver.py 119-129: the filter of a single clause.
SingleClauseTest(first_operator, first_version, x) ==
    IF first_operator = OpCaret THEN Version__xor__(x, first_version)
    ELSE IF first_operator = OpGe THEN Version__ge__(x, first_version)
    ELSE IF first_operator = OpLe THEN Version__le__(x, first_version)
    ELSE IF first_operator = OpGt THEN Version__gt__(x, first_version)
    ELSE IF first_operator = OpLt THEN Version__lt__(x, first_version)
    ELSE FALSE

\* Variant of TwoClauseTest: the ">" of a ">", "<=" range keeps the lower
\* bound itself, as ">=" does.
TwoClauseTestGtClosed(first_operator, second_operator, first_version, second_version, x) ==
    IF first_operator = OpGe /\ second_operator = OpLe
    THEN Version__le__(first_version, x) /\ Version__le__(x, second_version)
    ELSE IF first_operator = OpGt /\ second_operator = OpLe
    THEN Version__le__(first_version, x) /\ Version__le__(x, second_version)
    ELSE IF first_operator = OpGe /\ second_operator = OpLt
    THEN Version__le__(first_version, x) /\ Version__lt__(x, second_version)
    ELSE IF first_operator = OpGt /\ second_operator = OpLt
    THEN Version__lt__(first_version, x) /\ Version__lt__(x, second_version)
    ELSE FALSE

\* resolver.py 133-148: the filter of two clauses; a chained comparison
\* a <= x <= b is (a <= x) and (x <= b).
TwoClauseTest(first_operator, second_operator, first_version, second_version, x) ==
    IF first_operator = OpGe /\ second_operator = OpLe
    THEN Version__le__(first_version, x) /\ Version__le__(x, second_version)
    ELSE IF first_operator = OpGt /\ second_operator = OpLe
    THEN Version__lt__(first_version, x) /\ Version__le__(x, second_version)
    ELSE IF first_operator = OpGe /\ second_operator = OpLt
    THEN Version__le__(first_version, x) /\ Version__lt__(x, second_version)
    ELSE IF first_operator = OpGt /\ second_operator = OpLt
    THEN Version__lt__(first_version, x) /\ Version__lt__(x, second_version)
    ELSE FALSE

\* get_compatible_versions(pragma), given what get_available_versions()
\* returned.
get_compatible_versions(pragma, available) ==
    IF pragma = None THEN ReturnNone
    ELSE
    LET versions == get_version_objects(available.releases)
        first    == pragma[1]
        first_s  == FormatVersion(first[2], first[3], first[4])
    IN  IF ~is_valid_version(first_s) THEN Raise("AssertionError")
        ELSE IF first[1] = OpExact THEN ReturnStr(Version__repr__(Version(first_s)))
        ELSE IF Len(pragma) = 1
        THEN ReturnList(Comprehension(SelectSeq(versions,
                 LAMBDA x : SingleClauseTest(first[1], Version(first_s), x))))
        ELSE
        LET second   == pragma[2]
            second_s == FormatVersion(second[2], second[3], second[4])
        IN  IF ~is_valid_version(second_s) THEN Raise("AssertionError")
            ELSE ReturnList(Comprehension(SelectSeq(versions,
                     LAMBDA x : TwoClauseTest(first[1], second[1],
                                    Version(first_s), Version(second_s), x))))

\* Variant of SameVersionOperators: "<=" is left out of the set.
SameVersionOperatorsWithoutLe == {OpCaret, OpGe, OpExact}

\* resolver.py 193: the operators whose bound is recommended as it is.
SameVersionOperators == {OpCaret, OpGe, OpLe, OpExact}

\* Variant of NotBelowLatest: ">" where the code has ">=".
NotBelowLatestStrict(first_s, latest) ==
    Version__gt__(Version(first_s), Version(latest))

\* resolver.py 196: the bound is not below the latest release.
NotBelowLatest(first_s, latest) ==
    Version__ge__(Version(first_s), Version(latest))

\* Variant of RecommendGreater: the bound's patch is compared with the
\* smallest known patch, min(patches), where the code has max(patches).
RecommendGreaterAgainstMin(first, version_dict) ==
    LET major   == first[2]
        minor   == first[3]
        patch   == first[4]
        vd1     == LookupMinor(version_dict, major, minor)
        patches == PatchesOf(vd1, major, minor)
        vd2     == LookupMajor(vd1, major + 1)
        next    == MinorsOf(vd2, major + 1)
    IN  IF patches = {}
        THEN [result |-> Raise("ValueError"), version_dict |-> vd1]
        ELSE IF patch >= SetMin(patches)
        THEN [result |-> ReturnStr(FormatVersion(major, minor + 1,
                             IF next = {} THEN 0 ELSE SetMin(next))),
              version_dict |-> vd2]
        ELSE [result |-> ReturnStr(FormatVersion(major, minor, patch + 1)),
              version_dict |-> vd1]

\* resolver.py 198-203, operator ">" below latest: the result and the index
\* as the lookups leave it.  max() of an empty set raises ValueError.
RecommendGreater(first, version_dict) ==
    LET major   == first[2]
        minor   == first[3]
        patch   == first[4]
        vd1     == LookupMinor(version_dict, major, minor)
        patches == PatchesOf(vd1, major, minor)
        vd2     == LookupMajor(vd1, major + 1)
        next    == MinorsOf(vd2, major + 1)
    IN  IF patches = {}
        THEN [result |-> Raise("ValueError"), version_dict |-> vd1]
        ELSE IF patch >= SetMax(patches)
        THEN [result |-> ReturnStr(FormatVersion(major, minor + 1,
                             IF next = {} THEN 0 ELSE SetMin(next))),
              version_dict |-> vd2]
        ELSE [result |-> ReturnStr(FormatVersion(major, minor, patch + 1)),
              version_dict |-> vd1]

\* resolver.py 205-206: the bound is not above the earliest release.
NotAboveEarliest(first_s, earliest) ==
    Version__le__(Version(first_s), Version(earliest))

\* resolver.py 208-213, operator "<": the result and the index as the
\* lookups leave it.  min() of an empty set raises ValueError.
RecommendLess(first, version_dict) ==
    LET major   == first[2]
        minor   == first[3]
        patch   == first[4]
        vd1     == LookupMinor(version_dict, major, minor)
        patches == PatchesOf(vd1, major, minor)
        vd2     == LookupMinor(vd1, major, minor - 1)
        prev    == PatchesOf(vd2, major, minor - 1)
    IN  IF patches = {}
        THEN [result |-> Raise("ValueError"), version_dict |-> vd1]
        ELSE IF patch <= SetMin(patches)
        THEN [result |-> ReturnStr(FormatVersion(major, minor - 1,
                             IF prev = {} THEN 0 ELSE SetMax(prev))),
              version_dict |-> vd2]
        ELSE [result |-> ReturnStr(FormatVersion(major, minor, patch - 1)),
              version_dict |-> vd1]

\* get_recommended_version(pragma) for a pragma that is not None, given the
\* platform and what get_available_versions() returned.
get_recommended_version(p, pragma, available) ==
    LET version_dict == _get_version_dict(available.releases)
        first        == pragma[1]
        first_s      == FormatVersion(first[2], first[3], first[4])
    IN  IF first[1] \in SameVersionOperators
        THEN [result |-> ReturnStr(first_s), version_dict |-> version_dict]
        ELSE IF first[1] = OpGt
        THEN IF ~is_valid_version(first_s)
             THEN [result |-> Raise("AssertionError"), version_dict |-> version_dict]
             ELSE IF NotBelowLatest(first_s, available.latest)
             THEN [result |-> Raise("NoCompatibleVersionError"),
                   version_dict |-> version_dict]
             ELSE RecommendGreater(first, version_dict)
        ELSE IF first[1] = OpLt
        THEN IF ~is_valid_version(first_s)
             THEN [result |-> Raise("AssertionError"), version_dict |-> version_dict]
             ELSE IF NotAboveEarliest(first_s, get_earliest_release(p))
             THEN \* line 207 builds NoCompatibleVersionError("earliest", ...)
                  \* as an expression statement, without raise: control
                  \* continues at line 208.
                  RecommendLess(first, version_dict)
             ELSE RecommendLess(first, version_dict)
        ELSE [result |-> ReturnNone, version_dict |-> version_dict]

(***************************************************************************)
(* resolve_version_from_solidity (solcix/resolver.py 17-74)                *)
(***************************************************************************)
\* What a capture group holds: None when the group took no part in the
\* match, the captured text (possibly empty) otherwise.
NoGroup == <<>>

Group(text) == <<text>>

\* The character classes of the pattern.
Whitespace == {" ", "\t", "\n", "\r", "\f"}

ComparatorChars == {">", "^", "=", "<"}

Digits == {DigitChars[i] : i \in 1..10}

\* [\s\"\']
Padding == Whitespace \cup {"\"", "'"}

\* [\s\"]
PaddingOfSecond == Whitespace \cup {"\""}

\* Quantifiers: a character class taken exactly once, once or more, or any
\* number of times.  name is the capture group around the item ("" for
\* none); optional says that the group is itself under a star, as in
\* (?P<first_3>\d+)*, and then takes no part when it matches nothing.
One(class) == [class |-> class, least |-> 1, once |-> TRUE, name |-> "", optional |-> FALSE]

Many(class) == [class |-> class, least |-> 0, once |-> FALSE, name |-> "", optional |-> FALSE]

Named(name, class, least) ==
    [class |-> class, least |-> least, once |-> FALSE, name |-> name, optional |-> FALSE]

NamedStar(name, class) ==
    [class |-> class, least |-> 0, once |-> FALSE, name |-> name, optional |-> TRUE]

\* "pragma solidity"
Keyword ==
    <<"p", "r", "a", "g", "m", "a", " ", "s", "o", "l", "i", "d", "i", "t", "y">>

\* resolver.py 50, the pattern: the text "pragma solidity", the group of the
\* first clause, the starred group of the second clause, and ";".  A group
\* is the sequence of its items.
FirstGroup ==
    << Many(Whitespace),
       Named("first_comp", ComparatorChars, 0),
       Many(Padding),
       Named("first_1", Digits, 1),
       Many(Whitespace),
       One({"."}),
       Many(Whitespace),
       Named("first_2", Digits, 1),
       Many(Whitespace),
       Many({"."}),
       Many(Whitespace),
       NamedStar("first_3", Digits),
       Many(Padding) >>

SecondGroup ==
    << Named("second_comp", ComparatorChars, 0),
       Many(Padding),
       Named("second_1", Digits, 1),
       Many(Whitespace),
       One({"."}),
       Many(Whitespace),
       Named("second_2", Digits, 1),
       Many(Whitespace),
       Many({"."}),
       Many(Whitespace),
       NamedStar("second_3", Digits),
       Many(PaddingOfSecond) >>

GroupNames ==
    {"first_comp", "first_1", "first_2", "first_3",
     "second_comp", "second_1", "second_2", "second_3"}

NoMatch == [matched |-> FALSE, groups |-> [n \in GroupNames |-> NoGroup]]

\* The number of characters of the class that s holds from position pos on.
RECURSIVE Run(_, _, _)
Run(s, pos, class) ==
    IF pos <= Len(s) /\ s[pos] \in class THEN 1 + Run(s, pos + 1, class) ELSE 0

\* The groups after an item has taken text.
Capture(groups, item, text) ==
    IF item.name = "" \/ (item.optional /\ text = <<>>) THEN groups
    ELSE [groups EXCEPT ![item.name] = Group(text)]

\* The ways in which the items from the k-th on match s from position pos,
\* in the order in which the backtracking search of re.match tries them:
\* every quantifier is greedy and gives characters back one at a time.  A
\* way is the position after the items and the groups as they are then.
\* (\d+)* gives back as \d* does: among its ways of ending at one position
\* the search meets the single round first.
RECURSIVE Ways(_, _, _, _, _)
RECURSIVE Taking(_, _, _, _, _, _)
Taking(items, k, s, pos, groups, n) ==
    IF n < items[k].least THEN <<>>
    ELSE Ways(items, k + 1, s, pos + n,
              Capture(groups, items[k], SubSeq(s, pos, pos + n - 1)))
         \o Taking(items, k, s, pos, groups, n - 1)

Ways(items, k, s, pos, groups) ==
    IF k > Len(items) THEN << [pos |-> pos, groups |-> groups] >>
    ELSE LET run == Run(s, pos, items[k].class)
         IN  Taking(items, k, s, pos, groups,
                    IF items[k].once /\ run > 1 THEN 1 ELSE run)

\* The rest of the pattern from position pos, "(second group)*;": the
\* starred group tries one more round before the ";", and a group keeps
\* what it captured in the last round it took part in.  FirstOf is the
\* first of the ways after which the rest of the pattern matches.
RECURSIVE Rounds(_, _, _)
RECURSIVE FirstOf(_, _, _)
FirstOf(s, ways, i) ==
    IF i > Len(ways) THEN NoMatch
    ELSE LET rest == Rounds(s, ways[i].pos, ways[i].groups)
         IN  IF rest.matched THEN rest ELSE FirstOf(s, ways, i + 1)

Rounds(s, pos, groups) ==
    LET round == FirstOf(s, Ways(SecondGroup, 1, s, pos, groups), 1)
    IN  IF round.matched THEN round
        ELSE IF pos <= Len(s) /\ s[pos] = ";"
        THEN [matched |-> TRUE, groups |-> groups]
        ELSE NoMatch

\* str.startswith(prefix)
StartsWith(s, prefix) ==
    Len(s) >= Len(prefix) /\ SubSeq(s, 1, Len(prefix)) = prefix

\* re.match(pattern, source)
re_match(source) ==
    IF ~StartsWith(source, Keyword) THEN NoMatch
    ELSE FirstOf(source,
                 Ways(FirstGroup, 1, source, Len(Keyword) + 1, NoMatch.groups), 1)

\* str.strip()
RECURSIVE Strip(_)
Strip(s) ==
    IF s = <<>> THEN s
    ELSE IF s[1] \in Whitespace THEN Strip(Tail(s))
    ELSE IF s[Len(s)] \in Whitespace THEN Strip(SubSeq(s, 1, Len(s) - 1))
    ELSE s

\* resolver.py 46-49: the first line of the file whose stripped form starts
\* with "pragma", as it stands in the file; source itself when there is no
\* such line.
RECURSIVE FirstPragmaLine(_, _)
FirstPragmaLine(lines, source) ==
    IF lines = <<>> THEN source
    ELSE IF StartsWith(Strip(Head(lines)), SubSeq(Keyword, 1, 6)) THEN Head(lines)
    ELSE FirstPragmaLine(Tail(lines), source)

\* What resolve_version_from_solidity returns when it returns a tuple.
ReturnPragma(p) ==
    [kind |-> "pragma", str |-> <<>>, list |-> <<>>, error |-> "", pragma |-> p]

\* Truthiness of a captured group inside all([...]).
Truthy(group) == group # NoGroup /\ group[1] # <<>>

\* resolve_version_from_solidity(source), isfile being what
\* os.path.isfile(source) answers and lines the lines of that file.
\* int(None) raises TypeError.
resolve_version_from_solidity(source, isfile, lines) ==
    LET text      == IF isfile THEN FirstPragmaLine(lines, source) ELSE source
        match     == re_match(text)
        variables == match.groups
    IN  IF ~match.matched THEN ReturnNone
        ELSE IF /\ variables["second_comp"] # NoGroup
                /\ Truthy(variables["second_1"])
                /\ Truthy(variables["second_2"])
                /\ Truthy(variables["second_3"])
        THEN IF variables["first_3"] = NoGroup THEN Raise("TypeError")
             ELSE
             LET first_version  == << StrToInt(variables["first_1"][1]),
                                      StrToInt(variables["first_2"][1]),
                                      StrToInt(variables["first_3"][1]) >>
                 second_version == << StrToInt(variables["second_1"][1]),
                                      StrToInt(variables["second_2"][1]),
                                      StrToInt(variables["second_3"][1]) >>
             IN  IF TupleLess(second_version, first_version) THEN ReturnNone
                 ELSE ReturnPragma(<< <<variables["first_comp"][1]>> \o first_version,
                                      <<variables["second_comp"][1]>> \o second_version >>)
        ELSE IF variables["first_3"] = NoGroup THEN Raise("TypeError")
        ELSE ReturnPragma(<< << variables["first_comp"][1],
                                StrToInt(variables["first_1"][1]),
                                StrToInt(variables["first_2"][1]),
                                StrToInt(variables["first_3"][1]) >> >>)

(***************************************************************************)
(* The inputs of the model.                                                *)
(***************************************************************************)
Operators == {OpExact, OpCaret, OpGt, OpGe, OpLt, OpLe}

Clauses == {<<op, t[1], t[2], t[3]>> : op \in Operators, t \in Triples}

\* The pragmas handed to the resolver, among those that
\* resolve_version_from_solidity returns: None, every single clause, and
\* the ranges "lower bound, upper bound" whose upper bound is the start of a
\* series.  The first version of a range is never above the second
\* (resolver.py 67-68).
Pragmas ==
    {None}
    \cup {<<c>> : c \in Clauses}
    \cup {<<c[1], c[2]>> :
            c \in {x \in Clauses \X Clauses :
                     /\ x[1][1] \in {OpGe, OpGt, OpCaret}
                     /\ x[2][1] \in {OpLe, OpLt}
                     /\ x[2][4] = 0
                     /\ ~TupleLess(<<x[2][2], x[2][3], x[2][4]>>,
                                   <<x[1][2], x[1][3], x[1][4]>>)}}

\* The comparator tokens written in a declaration: the six operators and
\* other strings of the characters > ^ = <.
WrittenComparators ==
    Operators \cup {<<"=">>, <<"=", "=">>, <<"=", ">">>, <<"^", "^">>}

\* The comparator tokens written in a second clause.
WrittenSecondComparators == {OpExact, OpLt, OpLe, <<"=">>}

\* The clauses written in a declaration, <<comparator, major, minor>> or
\* <<comparator, major, minor, patch>>.
WrittenClauses(comparators) ==
    {<<c, 0, minor>> : c \in comparators, minor \in {6, 8}}
    \cup {<<c, 0, minor, patch>> :
             c \in comparators, minor \in {6, 8}, patch \in {0, 12}}

RenderClause(c) ==
    c[1] \o IntToStr(c[2]) \o <<".">> \o IntToStr(c[3])
         \o (IF Len(c) = 4 THEN <<".">> \o IntToStr(c[4]) ELSE <<>>)

\* "pragma solidity <first>;" or "pragma solidity <first> <second>;"
RenderStatement(first, second) ==
    Keyword \o <<" ">> \o RenderClause(first)
            \o (IF second = <<>> THEN <<>> ELSE <<" ">> \o RenderClause(second))
            \o <<";">>

\* What a declaration is preceded by on its line.
Indentations == {<<>>, <<" ", "\t">>}

\* The lines of a source file around its declaration.
CommentLine == <<"/", "/", "\n">>

LaterDeclaration == RenderStatement(<<OpCaret, 0, 6, 0>>, <<>>) \o <<"\n">>

\* The path of a source file.
Path == <<"C", ".", "s", "o", "l">>

\* What is written: a source string holding one statement, or a file of
\* up to MaxPreamble comment lines, then the declaration on a line of its
\* own (no such line when first is <<>>), then possibly a later
\* declaration.
Written ==
    {[isfile |-> FALSE, indent |-> i, first |-> f, second |-> s,
      preamble |-> 0, later |-> FALSE] :
        i \in Indentations,
        f \in WrittenClauses(WrittenComparators),
        s \in {<<>>} \cup WrittenClauses(WrittenSecondComparators)}
    \cup
    {[isfile |-> TRUE, indent |-> i, first |-> f, second |-> <<>>,
      preamble |-> n, later |-> l] :
        i \in Indentations,
        f \in {<<>>} \cup WrittenClauses(WrittenComparators),
        n \in 0..MaxPreamble,
        l \in BOOLEAN}

\* The lines of a written file.
FileLines(w) ==
    [i \in 1..w.preamble |-> CommentLine]
    \o (IF w.first = <<>> THEN <<>>
        ELSE << w.indent \o RenderStatement(w.first, w.second) \o <<"\n">> >>)
    \o (IF w.later THEN <<LaterDeclaration>> ELSE <<>>)

\* The argument of resolve_version_from_solidity for what is written, with
\* what the file system holds under it.
SourceOf(w) ==
    [written |-> w,
     isfile  |-> w.isfile,
     source  |-> IF w.isfile THEN Path
                 ELSE w.indent \o RenderStatement(w.first, w.second),
     lines   |-> IF w.isfile THEN FileLines(w) ELSE <<>>]

Sources == {SourceOf(w) : w \in Written}

\* The numbers the components of a version string are written from.
VersionComponents == {0, 4, 9, 10}

\* The strings "major.minor.patch".
CanonicalTexts ==
    {FormatVersion(a, b, c) :
        a \in VersionComponents, b \in VersionComponents, c \in VersionComponents}

\* What follows or precedes a version in a string that is not one: a
\* newline, a letter, a pre-release tag, a blank, a fourth segment, a dot.
Suffixes ==
    {<<"\n">>, <<"\n", "\n">>, <<"a">>, <<"-", "r", "c">>, <<" ">>, <<".", "4">>, <<".">>}

Prefixes == {<<" ">>, <<"v">>}

\* The strings handed to Version(): the canonical ones, those with
\* something after or before them, those of two segments, and "".
VersionTexts ==
    CanonicalTexts
    \cup {t \o x : t \in CanonicalTexts, x \in Suffixes}
    \cup {x \o t : t \in CanonicalTexts, x \in Prefixes}
    \cup {IntToStr(a) \o <<".">> \o IntToStr(b) :
             a \in VersionComponents, b \in VersionComponents}
    \cup {<<>>}

(***************************************************************************)
(* The installer (solcix/installer.py).                                    *)
(*                                                                         *)
(* ARTIFACT_DIR is the set of its entries <<version, binary>>, one for     *)
(* each directory solc-<version>: binary is "good" when the file           *)
(* solc-<version>/solc-<version> hashes to the checksums of the build      *)
(* list, "extracted" when it is the solc.exe taken out of a good archive,  *)
(* and "broken" when it is anything else.                                  *)
(***************************************************************************)
Entry(version, binary) == <<version, binary>>

\* get_installed_versions(), dir being ARTIFACT_DIR
get_installed_versions(dir) == {e[1] : e \in dir}

\* shutil.rmtree(ARTIFACT_DIR/solc-<version>)
rmtree(dir, version) == {e \in dir : e[1] # version}

\* makedirs(artifact_parent, exist_ok=True), then the file urlretrieve
\* writes at artifact_path.
Retrieved(dir, version, binary) == rmtree(dir, version) \cup {Entry(version, binary)}

BinaryOf(dir, version) == (CHOOSE e \in dir : e[1] = version)[2]

\* What a call of urlretrieve does: it writes the file of the build list,
\* it writes something else, or it raises.
DownloadOutcomes == {"good", "corrupt", "fails"}

\* What removing an installed entry does.
RemovalOutcomes == {"removed", "raises"}

_is_older_windows(p, version) ==
    /\ p = "WINDOWS"
    /\ Version__le__(Version(version), Version(<<"0", ".", "7", ".", "1">>))

\* _verify_checksum(version): the exception it raises, "" when it returns.
\* _get_checksums looks the version up in the build list of the platform,
\* which lists the releases; open() then needs the file.
_verify_checksum(version, dir, available) ==
    IF ~\E i \in 1..Len(available.releases) : available.releases[i] = version
    THEN "ChecksumMissingError"
    ELSE IF version \notin get_installed_versions(dir)
    THEN "FileNotFoundError"
    ELSE IF BinaryOf(dir, version) # "good"
    THEN "ChecksumMismatchError"
    ELSE ""

\* The word install_solc and verify_solc replace with the latest release.
LatestWord == <<"l", "a", "t", "e", "s", "t">>

\* [latest if v == "latest" else v for v in versions]
ReplaceLatest(versions, latest) ==
    [i \in 1..Len(versions) |-> IF versions[i] = LatestWord THEN latest ELSE versions[i]]

\* The locals of install_solc and uninstall_solc when their loop starts,
\* with the directory as the call found it.
Started(dir) ==
    [dir |-> dir, success |-> <<>>, skipped |-> <<>>, errors |-> <<>>,
     downloads |-> 0, raised |-> ""]

\* Whether install_solc reaches urlretrieve for this version.
Downloads(version, installed, version_dict) ==
    /\ is_valid_version(version)
    /\ version \notin installed
    /\ AsTuple(Version(version)) \in version_dict.patches

\* One round of the loop of install_solc, outcome being what urlretrieve
\* does if the round calls it.
InstallOne(p, version, installed, version_dict, available, outcome, acc) ==
    IF ~is_valid_version(version)
    THEN [acc EXCEPT !.errors = Append(@, version)]
    ELSE IF version \in installed
    THEN [acc EXCEPT !.skipped = Append(@, version)]
    ELSE IF AsTuple(Version(version)) \notin version_dict.patches
    THEN [acc EXCEPT !.errors = Append(@, version)]
    ELSE IF outcome = "fails"
    THEN [acc EXCEPT !.dir = rmtree(@, version),
                     !.errors = Append(@, version),
                     !.downloads = @ + 1]
    ELSE LET written == Retrieved(acc.dir, version,
                                  IF outcome = "good" THEN "good" ELSE "broken")
             error   == _verify_checksum(version, written, available)
         IN  IF error # ""
             THEN [acc EXCEPT !.dir = written,
                              !.downloads = @ + 1,
                              !.raised = error]
             ELSE [acc EXCEPT !.dir = IF _is_older_windows(p, version)
                                      THEN Retrieved(written, version, "extracted")
                                      ELSE written,
                              !.downloads = @ + 1,
                              !.success = Append(@, version)]

\* The loop of install_solc from its i-th version on; an exception ends it.
RECURSIVE InstallFrom(_, _, _, _, _, _, _, _)
InstallFrom(p, versions, i, installed, version_dict, available, outcomes, acc) ==
    IF i > Len(versions) \/ acc.raised # "" THEN acc
    ELSE InstallFrom(p, versions, i + 1, installed, version_dict, available, outcomes,
                     InstallOne(p, versions[i], installed, version_dict, available,
                                outcomes[i], acc))

\* install_solc(versions) for a list of versions, outcomes[i] being what
\* urlretrieve does for the i-th of them.  The locals as the call leaves
\* them: it returns (success, skipped, errors) unless raised is set.
install_solc(p, versions, dir, available, outcomes) ==
    InstallFrom(p, ReplaceLatest(versions, available.latest), 1,
                get_installed_versions(dir),
                _get_version_dict(available.releases),
                available, outcomes, Started(dir))

\* What urlretrieve may do in a call of install_solc(versions): one outcome
\* for each version the loop downloads.
OutcomesFor(versions, dir, available) ==
    {o \in [1..Len(versions) -> DownloadOutcomes] :
        \A i \in 1..Len(versions) :
            Downloads(ReplaceLatest(versions, available.latest)[i],
                      get_installed_versions(dir),
                      _get_version_dict(available.releases))
            \/ o[i] = "good"}

\* One round of the loop of uninstall_solc.  An entry that is already
\* gone is no directory, and unlink() raises FileNotFoundError.
UninstallOne(version, installed, outcome, acc) ==
    IF version \notin installed
    THEN [acc EXCEPT !.skipped = Append(@, version)]
    ELSE IF version \notin get_installed_versions(acc.dir) \/ outcome = "raises"
    THEN [acc EXCEPT !.errors = Append(@, version),
                     !.success = Append(@, version)]
    ELSE [acc EXCEPT !.dir = rmtree(@, version),
                     !.success = Append(@, version)]

RECURSIVE UninstallFrom(_, _, _, _, _)
UninstallFrom(versions, i, installed, outcomes, acc) ==
    IF i > Len(versions) THEN acc
    ELSE UninstallFrom(versions, i + 1, installed, outcomes,
                       UninstallOne(versions[i], installed, outcomes[i], acc))

\* uninstall_solc(versions) for a list of versions, outcomes[i] being what
\* removing the i-th of them does.
uninstall_solc(versions, dir, outcomes) ==
    UninstallFrom(versions, 1, get_installed_versions(dir), outcomes, Started(dir))

\* One round of the loop of verify_solc: ChecksumMismatchError and
\* FileNotFoundError are caught, ChecksumMissingError is not.
VerifyOne(v, reinstall, dir, available, acc) ==
    IF ~is_valid_version(v) THEN acc
    ELSE LET error == _verify_checksum(v, dir, available)
         IN  IF error = "ChecksumMismatchError"
             THEN IF reinstall THEN [acc EXCEPT !.fixs = Append(@, v)] ELSE acc
             ELSE IF error = "ChecksumMissingError"
             THEN [acc EXCEPT !.raised = error]
             ELSE acc

RECURSIVE VerifyFrom(_, _, _, _, _, _)
VerifyFrom(version, i, reinstall, dir, available, acc) ==
    IF i > Len(version) \/ acc.raised # "" THEN acc
    ELSE VerifyFrom(version, i + 1, reinstall, dir, available,
                    VerifyOne(version[i], reinstall, dir, available, acc))

\* The loop of verify_solc(version, reinstall): the versions to fix.
Checked(version, reinstall, dir, available) ==
    VerifyFrom(ReplaceLatest(version, available.latest), 1, reinstall, dir, available,
               [fixs |-> <<>>, raised |-> ""])

\* verify_solc(version, reinstall) for a list of versions: the locals of
\* the install_solc(fixs) it ends with, or the directory as it was.
verify_solc(p, version, reinstall, dir, available, outcomes) ==
    LET checked == Checked(version, reinstall, dir, available)
    IN  IF checked.raised # ""
        THEN [Started(dir) EXCEPT !.raised = checked.raised]
        ELSE IF reinstall /\ Len(checked.fixs) > 0
        THEN install_solc(p, checked.fixs, dir, available, outcomes)
        ELSE Started(dir)

\* install_solc_from_solidity(source) with the default resolver, version
\* being what resolve_version_from_solidity(source) returned or raised and
\* outcomes what urlretrieve does for the version it installs.
\* install_solc(None) raises TypeError where it iterates its argument.
install_solc_from_solidity(p, version, dir, available, outcomes) ==
    LET recommended == IF version.kind = "pragma"
                       THEN get_recommended_version(p, version.pragma, available).result
                       ELSE version
        installed   == get_installed_versions(dir)
        unchanged   == [dir |-> dir, downloads |-> 0, result |-> recommended]
    IN  IF recommended.kind = "raise" THEN unchanged
        ELSE IF recommended.kind = "None"
        THEN [unchanged EXCEPT !.result = Raise("TypeError")]
        ELSE IF recommended.str \in installed THEN unchanged
        ELSE LET acc == install_solc(p, <<recommended.str>>, dir, available, outcomes)
             IN  [dir       |-> acc.dir,
                  downloads |-> acc.downloads,
                  result    |-> IF acc.raised # "" THEN Raise(acc.raised)
                                ELSE recommended]

(***************************************************************************)
(* The manager (solcix/manage/manage.py).                                  *)
(***************************************************************************)
\* A file that does not exist, a variable that is not set.
Absent == <<>>

\* A file, or an environment variable, and its text.
Holding(text) == <<text>>

\* What current_version() returns: (version, source).
ReturnCurrent(version, source_name) ==
    [kind |-> "tuple", str |-> version, list |-> <<>>, error |-> "",
     source |-> source_name]

\* "not version" for what f.read() or os.environ.get() returned.
NotVersion(read) == read = Absent \/ read[1] = <<>>

\* current_version(), local being the file .solcix, env the variable
\* SOLC_VERSION and global the file global-version.
current_version(local, env, global, dir) ==
    LET first   == IF local # Absent THEN local ELSE env
        named   == IF local # Absent THEN ".solcix" ELSE "SOLC_VERSION"
        chosen  == IF NotVersion(first) THEN global ELSE first
        origin  == IF NotVersion(first) THEN "global-version" ELSE named
    IN  IF NotVersion(first) /\ global = Absent
        THEN Raise("NotInstalledError")
        ELSE IF chosen[1] \notin get_installed_versions(dir)
        THEN Raise("NotInstalledError")
        ELSE ReturnCurrent(chosen[1], origin)

\* switch_local_version and switch_global_version up to the file they
\* write: the depth-th call, after downloads calls of urlretrieve,
\* outcomes[depth] being what urlretrieve does if this call installs.
\* switched tells whether the file is written.
RECURSIVE SwitchVersion(_, _, _, _, _, _, _, _)
SwitchVersion(p, version, always_install, dir, available, outcomes, depth, downloads) ==
    LET left == [dir |-> dir, downloads |-> downloads, switched |-> FALSE,
                 result |-> ReturnNone]
    IN  IF depth > RecursionLimit
        THEN [left EXCEPT !.result = Raise("RecursionError")]
        ELSE IF version \in get_installed_versions(dir)
        THEN [left EXCEPT !.switched = TRUE]
        ELSE IF \E i \in 1..Len(available.releases) : available.releases[i] = version
        THEN IF always_install
             THEN LET acc == install_solc(p, <<version>>, dir, available,
                                          <<outcomes[depth]>>)
                  IN  IF acc.raised # ""
                      THEN [left EXCEPT !.dir = acc.dir,
                                        !.downloads = downloads + acc.downloads,
                                        !.result = Raise(acc.raised)]
                      ELSE SwitchVersion(p, version, always_install, acc.dir,
                                         available, outcomes, depth + 1,
                                         downloads + acc.downloads)
             ELSE [left EXCEPT !.result = Raise("NotInstalledError")]
        ELSE [left EXCEPT !.result = Raise("NoSolcVersionInstalledError")]

\* What urlretrieve may do in a call of switch_*_version: nothing is asked
\* of it unless the call installs.
OutcomesOfSwitch(version, always_install, dir, available) ==
    IF /\ always_install
       /\ version \notin get_installed_versions(dir)
       /\ \E i \in 1..Len(available.releases) : available.releases[i] = version
    THEN [1..RecursionLimit -> DownloadOutcomes]
    ELSE {[i \in 1..RecursionLimit |-> "good"]}

(***************************************************************************)
(* State.                                                                  *)
(***************************************************************************)
VARIABLES
    platform,       \* what _get_platform() returns on this machine
    available,      \* what get_available_versions() returns on this machine
    call,           \* "idle", or the function that has just returned
    pragma,         \* the argument of that call
    result,         \* what it returned or raised
    version_dict,   \* the index built by that call, as the call left it
    source,         \* the source handed to resolve_version_from_solidity
    operands,       \* the strings two Version objects are made from
    artifact_dir,   \* ARTIFACT_DIR: the solc-<version> entries and their binaries
    solcix_file,    \* the file .solcix of the working directory
    environ,        \* the environment variable SOLC_VERSION
    global_version, \* the file SOLCIX_DIR/global-version
    arguments,      \* the arguments of a call of the installer or the manager
    downloads       \* how many times that call has called urlretrieve

vars == <<platform, available, call, pragma, result, version_dict, source, operands,
          artifact_dir, solcix_file, environ, global_version, arguments, downloads>>

\* What is on the disk and in the environment of the process.
disk == <<artifact_dir, solcix_file, environ, global_version>>

\* A machine solcix has not been used on.
NothingInstalled ==
    /\ artifact_dir = {}
    /\ solcix_file = Absent
    /\ environ = Absent
    /\ global_version = Absent

NoIndex == [majors |-> {}, minors |-> {}, patches |-> {}]

Idle ==
    /\ call = "idle"
    /\ pragma = None
    /\ result = ReturnNone
    /\ version_dict = NoIndex
    /\ source = None
    /\ operands = None
    /\ arguments = None
    /\ downloads = 0

Init ==
    /\ platform \in Platforms
    /\ available \in Available[platform]
    /\ NothingInstalled
    /\ Idle

\* A call of get_compatible_versions(pragma).
GetCompatibleVersions ==
    /\ call = "idle"
    /\ \E pr \in Pragmas :
          /\ pragma' = pr
          /\ result' = get_compatible_versions(pr, available)
    /\ call' = "get_compatible_versions"
    /\ version_dict' = NoIndex
    /\ UNCHANGED <<platform, available, source, operands, disk, arguments, downloads>>

\* A call of get_recommended_version(pragma).
GetRecommendedVersion ==
    /\ call = "idle"
    /\ \E pr \in Pragmas :
          /\ pragma' = pr
          /\ IF pr = None
             THEN /\ result' = ReturnNone
                  /\ version_dict' = NoIndex
             ELSE LET out == get_recommended_version(platform, pr, available)
                  IN  /\ result' = out.result
                      /\ version_dict' = out.version_dict
    /\ call' = "get_recommended_version"
    /\ UNCHANGED <<platform, available, source, operands, disk, arguments, downloads>>

\* The caller takes the result; the locals of the call are gone.
Return ==
    /\ call # "idle"
    /\ call' = "idle"
    /\ pragma' = None
    /\ result' = ReturnNone
    /\ version_dict' = NoIndex
    /\ source' = None
    /\ operands' = None
    /\ arguments' = None
    /\ downloads' = 0
    /\ UNCHANGED <<platform, available, disk>>

Next ==
    \/ GetCompatibleVersions
    \/ GetRecommendedVersion
    \/ Return

Spec == Init /\ [][Next]_vars

\* The same machine over release lists whose keys have more than one digit
\* in a component.
InitOrdering ==
    /\ platform \in Platforms
    /\ available \in AvailableOrdering[platform]
    /\ NothingInstalled
    /\ Idle

SpecOrdering == InitOrdering /\ [][Next]_vars

\* The parser and class Version read their arguments and nothing else: no
\* release list is fetched.
NotFetched == [releases |-> <<>>, latest |-> <<>>]

InitOffline ==
    /\ platform \in Platforms
    /\ available = NotFetched
    /\ NothingInstalled
    /\ Idle

\* A call of resolve_version_from_solidity(source).
ResolveVersionFromSolidity ==
    /\ call = "idle"
    /\ \E s \in Sources :
          /\ source' = s
          /\ result' = resolve_version_from_solidity(s.source, s.isfile, s.lines)
    /\ call' = "resolve_version_from_solidity"
    /\ pragma' = None
    /\ version_dict' = NoIndex
    /\ UNCHANGED <<platform, available, operands, disk, arguments, downloads>>

NextParse ==
    \/ ResolveVersionFromSolidity
    \/ Return

SpecParse == InitOffline /\ [][NextParse]_vars

\* What Version(version) returns.
ReturnVersion(v) ==
    [kind |-> "Version", str |-> <<>>, list |-> <<>>, error |-> "", version |-> v]

\* What the comparisons of two Version objects return.
ReturnComparisons(self, value) ==
    [kind |-> "comparisons", str |-> <<>>, list |-> <<>>, error |-> "",
     eq   |-> Version__eq__(self, value),
     ne   |-> Version__ne__(self, value),
     lt   |-> Version__lt__(self, value),
     gt   |-> Version__gt__(self, value),
     le   |-> Version__le__(self, value),
     ge   |-> Version__ge__(self, value),
     xor  |-> Version__xor__(self, value)]

\* Version(version): the assertion of datatypes.py 26, then the object.
MakeVersion ==
    /\ call = "idle"
    /\ \E version \in VersionTexts :
          /\ operands' = <<version>>
          /\ result' = IF is_valid_version(version)
                       THEN ReturnVersion(Version(version))
                       ELSE Raise("AssertionError")
    /\ call' = "Version"
    /\ pragma' = None
    /\ version_dict' = NoIndex
    /\ UNCHANGED <<platform, available, source, disk, arguments, downloads>>

\* Two Version objects are made and compared with ==, !=, <, >, <=, >=, ^.
CompareVersions ==
    /\ call = "idle"
    /\ \E x \in CanonicalTexts, y \in CanonicalTexts :
          /\ operands' = <<x, y>>
          /\ result' = ReturnComparisons(Version(x), Version(y))
    /\ call' = "compare"
    /\ pragma' = None
    /\ version_dict' = NoIndex
    /\ UNCHANGED <<platform, available, source, disk, arguments, downloads>>

NextVersion ==
    \/ MakeVersion
    \/ CompareVersions
    \/ Return

SpecVersion == InitOffline /\ [][NextVersion]_vars

(***************************************************************************)
(* The installer and the manager as a machine: calls of the public         *)
(* functions on a disk that earlier calls have written.                    *)
(***************************************************************************)
\* The versions a release list of this machine may hold.
InstallKeys == {FormatVersion(0, 4, 1), FormatVersion(0, 4, 2)}

AvailableToInstall == AvailableFrom(InstallKeys)

\* A string Version() refuses.
NotAVersion == <<"0", ".", "4">>

\* What a caller may ask for.
Requested == InstallKeys \cup {LatestWord, NotAVersion}

\* The lists of up to MaxRequested of these names.
Lists(names) == UNION {[1..n -> names] : n \in 1..MaxRequested}

\* The sources handed to install_solc_from_solidity: one without a
\* declaration, and declarations around the versions of the release list.
FlowSources ==
    {[source |-> CommentLine, isfile |-> FALSE, lines |-> <<>>]}
    \cup {[source |-> RenderStatement(<<op, 0, 4, k>>, <<>>),
           isfile |-> FALSE, lines |-> <<>>] :
             op \in {OpCaret, OpGt}, k \in {1, 2}}

\* What install_solc and uninstall_solc return.
ReturnLists(acc) ==
    [kind |-> "lists", str |-> <<>>, list |-> <<>>, error |-> "",
     success |-> acc.success, skipped |-> acc.skipped, errors |-> acc.errors]

\* What a call that ran install_solc or uninstall_solc hands back.
Outcome(acc) == IF acc.raised # "" THEN Raise(acc.raised) ELSE ReturnLists(acc)

InitInstall ==
    /\ platform \in Platforms
    /\ available \in AvailableToInstall[platform]
    /\ NothingInstalled
    /\ Idle

\* A call of install_solc(versions).
InstallSolc ==
    /\ call = "idle"
    /\ \E versions \in Lists(Requested) :
       \E outcomes \in OutcomesFor(versions, artifact_dir, available) :
       \E acc \in {install_solc(platform, versions, artifact_dir, available, outcomes)} :
              /\ arguments' = versions
              /\ artifact_dir' = acc.dir
              /\ downloads' = acc.downloads
              /\ result' = Outcome(acc)
    /\ call' = "install_solc"
    /\ UNCHANGED <<platform, available, pragma, version_dict, source, operands,
                   solcix_file, environ, global_version>>

\* A call of uninstall_solc(versions).
UninstallSolc ==
    /\ call = "idle"
    /\ \E versions \in Lists(InstallKeys) :
       \E outcomes \in [1..Len(versions) -> RemovalOutcomes] :
       \E acc \in {uninstall_solc(versions, artifact_dir, outcomes)} :
              /\ arguments' = versions
              /\ artifact_dir' = acc.dir
              /\ result' = Outcome(acc)
    /\ call' = "uninstall_solc"
    /\ UNCHANGED <<platform, available, pragma, version_dict, source, operands,
                   solcix_file, environ, global_version, downloads>>

\* A call of verify_solc(version, reinstall).
VerifySolc ==
    /\ call = "idle"
    /\ \E version \in Lists(Requested), reinstall \in BOOLEAN :
       \E outcomes \in OutcomesFor(Checked(version, reinstall, artifact_dir,
                                           available).fixs,
                                   artifact_dir, available) :
       \E acc \in {verify_solc(platform, version, reinstall, artifact_dir,
                                available, outcomes)} :
              /\ arguments' = <<version, reinstall>>
              /\ artifact_dir' = acc.dir
              /\ downloads' = acc.downloads
              /\ result' = IF acc.raised # "" THEN Raise(acc.raised) ELSE ReturnNone
    /\ call' = "verify_solc"
    /\ UNCHANGED <<platform, available, pragma, version_dict, source, operands,
                   solcix_file, environ, global_version>>

\* A call of install_solc_from_solidity(source).
InstallSolcFromSolidity ==
    /\ call = "idle"
    /\ \E s \in FlowSources, outcome \in DownloadOutcomes :
       \E version \in {resolve_version_from_solidity(s.source, s.isfile, s.lines)} :
       \E out \in {install_solc_from_solidity(platform, version, artifact_dir,
                                              available, <<outcome>>)} :
              /\ source' = s
              /\ artifact_dir' = out.dir
              /\ downloads' = out.downloads
              /\ result' = out.result
    /\ call' = "install_solc_from_solidity"
    /\ UNCHANGED <<platform, available, pragma, version_dict, operands,
                   solcix_file, environ, global_version, arguments>>

NextInstall ==
    \/ InstallSolc
    \/ UninstallSolc
    \/ VerifySolc
    \/ InstallSolcFromSolidity
    \/ Return

SpecInstall == InitInstall /\ [][NextInstall]_vars

\* The working directory may hold an empty .solcix, and the environment
\* may set SOLC_VERSION, before solcix is first used.
InitManage ==
    /\ platform \in Platforms
    /\ available \in AvailableToInstall[platform]
    /\ artifact_dir = {}
    /\ solcix_file \in {Absent, Holding(<<>>)}
    /\ environ \in {Absent} \cup {Holding(v) : v \in InstallKeys}
    /\ global_version = Absent
    /\ Idle

\* A call of current_version().
CurrentVersion ==
    /\ call = "idle"
    /\ result' = current_version(solcix_file, environ, global_version, artifact_dir)
    /\ call' = "current_version"
    /\ UNCHANGED <<platform, available, pragma, version_dict, source, operands,
                   disk, arguments, downloads>>

\* A call of switch_local_version(version, always_install).
SwitchLocalVersion ==
    /\ call = "idle"
    /\ \E version \in Requested, always_install \in BOOLEAN :
       \E outcomes \in OutcomesOfSwitch(version, always_install, artifact_dir, available) :
       \E out \in {SwitchVersion(platform, version, always_install, artifact_dir,
                                 available, outcomes, 1, 0)} :
              /\ arguments' = <<version, always_install>>
              /\ artifact_dir' = out.dir
              /\ downloads' = out.downloads
              /\ result' = out.result
              /\ solcix_file' = IF out.switched THEN Holding(version) ELSE solcix_file
    /\ call' = "switch_local_version"
    /\ UNCHANGED <<platform, available, pragma, version_dict, source, operands,
                   environ, global_version>>

\* A call of switch_global_version(version, always_install).
SwitchGlobalVersion ==
    /\ call = "idle"
    /\ \E version \in Requested, always_install \in BOOLEAN :
       \E outcomes \in OutcomesOfSwitch(version, always_install, artifact_dir, available) :
       \E out \in {SwitchVersion(platform, version, always_install, artifact_dir,
                                 available, outcomes, 1, 0)} :
              /\ arguments' = <<version, always_install>>
              /\ artifact_dir' = out.dir
              /\ downloads' = out.downloads
              /\ result' = out.result
              /\ global_version' = IF out.switched THEN Holding(version)
                                   ELSE global_version
    /\ call' = "switch_global_version"
    /\ UNCHANGED <<platform, available, pragma, version_dict, source, operands,
                   solcix_file, environ>>

NextManage ==
    \/ CurrentVersion
    \/ SwitchLocalVersion
    \/ SwitchGlobalVersion
    \/ UninstallSolc
    \/ Return

SpecManage == InitManage /\ [][NextManage]_vars

(***************************************************************************)
(* The vocabulary of the properties: versions as triples of numbers, in    *)
(* numeric order, and the catalog as the set of its releases.              *)
(***************************************************************************)
Precedes(a, b) ==
    \/ a[1] < b[1]
    \/ a[1] = b[1] /\ a[2] < b[2]
    \/ a[1] = b[1] /\ a[2] = b[2] /\ a[3] < b[3]

Text(t) == FormatVersion(t[1], t[2], t[3])

KnownTriples == Triples \cup OrderingTriples

TripleOf(s) == CHOOSE t \in KnownTriples : Text(t) = s

ListSet(l) == {l[i] : i \in 1..Len(l)}

\* Version t satisfies "op b".
Satisfies(op, t, b) ==
    IF op = OpGe THEN ~Precedes(t, b)
    ELSE IF op = OpGt THEN Precedes(b, t)
    ELSE IF op = OpLe THEN ~Precedes(b, t)
    ELSE IF op = OpLt THEN Precedes(t, b)
    ELSE t[1] = b[1] /\ t[2] = b[2] /\ t[3] >= b[3]

Catalog ==
    {t \in KnownTriples :
        \E i \in 1..Len(available.releases) : available.releases[i] = Text(t)}

Latest == CHOOSE t \in KnownTriples : Text(t) = available.latest

Earliest ==
    IF platform = "MACOS" THEN <<0, 3, 6>>
    ELSE IF platform = "LINUX" THEN <<0, 4, 0>>
    ELSE <<0, 4, 1>>

KnownPatches(major, minor) ==
    {t[3] : t \in {x \in Catalog : x[1] = major /\ x[2] = minor}}

MinOrZero(S) == IF S = {} THEN 0 ELSE SetMin(S)

MaxOrZero(S) == IF S = {} THEN 0 ELSE SetMax(S)

\* get_recommended_version has returned from a pragma whose first operator
\* is op.
Recommending(op) ==
    /\ call = "get_recommended_version"
    /\ pragma # None
    /\ pragma[1][1] = op

\* The version of the first clause.
Bound == <<pragma[1][2], pragma[1][3], pragma[1][4]>>

NoCompatibleVersion == Raise("NoCompatibleVersionError")

(***************************************************************************)
(* get_recommended_version                                                 *)
(***************************************************************************)
\* C1: with ">" and a bound below latest whose patch is the largest known
\* patch of its series, the result is (major, minor + 1, p), p the smallest
\* known patch of series (major, minor + 1), or 0 when that series has no
\* release.
C1_NextSeriesStartsAtItsSmallestPatch ==
    ( /\ Recommending(OpGt)
      /\ Precedes(Bound, Latest)
      /\ KnownPatches(Bound[1], Bound[2]) # {}
      /\ Bound[3] = SetMax(KnownPatches(Bound[1], Bound[2])) )
    => result = ReturnStr(Text(<<Bound[1], Bound[2] + 1,
                                 MinOrZero(KnownPatches(Bound[1], Bound[2] + 1))>>))

\* C2: with "<" and a bound at or below the platform's earliest release, the
\* call fails with NoCompatibleVersionError.
C2_AtOrBelowEarliestFails ==
    (Recommending(OpLt) /\ ~Precedes(Earliest, Bound))
    => result = NoCompatibleVersion

\* C3: with ">", the call fails with NoCompatibleVersionError exactly when
\* the bound is at or above the latest release; it then returns no version.
C3_GreaterFailsExactlyFromLatestOn ==
    Recommending(OpGt)
    => ((result = NoCompatibleVersion) <=> ~Precedes(Bound, Latest))

C3_Witness ==
    /\ Recommending(OpGt)
    /\ Bound = Latest
    /\ result = NoCompatibleVersion

\* C4: with "<" and a bound above the earliest release, the result is
\* (major, minor - 1, q) when the bound's patch is the smallest known patch
\* of its series, q the largest known patch of series (major, minor - 1) or
\* 0 when that series has no release; otherwise it is (major, minor,
\* patch - 1).
C4_LessStepsDownOrBack ==
    (Recommending(OpLt) /\ Precedes(Earliest, Bound))
    => result = ReturnStr(
           IF /\ KnownPatches(Bound[1], Bound[2]) # {}
              /\ Bound[3] = SetMin(KnownPatches(Bound[1], Bound[2]))
           THEN Text(<<Bound[1], Bound[2] - 1,
                       MaxOrZero(KnownPatches(Bound[1], Bound[2] - 1))>>)
           ELSE Text(<<Bound[1], Bound[2], Bound[3] - 1>>))

C6_SameVersionRecommended ==
    ( /\ call = "get_recommended_version"
      /\ pragma # None
      /\ pragma[1][1] \in {OpExact, OpCaret, OpGe, OpLe} )
    => result = ReturnStr(Text(Bound))

C6_Witness ==
    /\ Recommending(OpGe)
    /\ Len(pragma) = 2
    /\ Bound \notin Catalog
    /\ result = ReturnStr(Text(Bound))

(***************************************************************************)
(* get_compatible_versions                                                 *)
(***************************************************************************)
\* get_compatible_versions has returned from a pragma of n clauses.
Filtering(n) ==
    /\ call = "get_compatible_versions"
    /\ pragma # None
    /\ Len(pragma) = n

\* The version of the second clause.
Upper == <<pragma[2][2], pragma[2][3], pragma[2][4]>>

\* C7: for two clauses, the first with ">=" or ">" and the second with "<="
\* or "<", the result lists exactly the releases v of the catalog with
\* lower op1 v and v op2 upper, each end closed or open as its operator
\* says; the list may be empty.
C7_RangeListsTheInterval ==
    ( /\ Filtering(2)
      /\ pragma[1][1] \in {OpGe, OpGt}
      /\ pragma[2][1] \in {OpLe, OpLt} )
    => /\ result.kind = "list"
       /\ ListSet(result.list) =
            {Text(t) : t \in {v \in Catalog :
                                 /\ Satisfies(pragma[1][1], v, Bound)
                                 /\ Satisfies(pragma[2][1], v, Upper)}}

C7_Witness ==
    /\ Filtering(2)
    /\ pragma[1][1] = OpGt
    /\ pragma[2][1] = OpLe
    /\ Bound \in Catalog
    /\ Upper \in Catalog
    /\ Precedes(Bound, Upper)
    /\ result = ReturnList(<<Text(Upper)>>)

\* C8: for a single clause with "^", ">=", "<=", ">" or "<", the result
\* lists exactly the releases v of the catalog with v op bound ("^": same
\* major and minor, patch at least the bound's); with no such release it is
\* the empty list, not an error.
C8_SingleClauseListsTheMatches ==
    ( /\ Filtering(1)
      /\ pragma[1][1] \in {OpCaret, OpGe, OpLe, OpGt, OpLt} )
    => /\ result.kind = "list"
       /\ ListSet(result.list) =
            {Text(t) : t \in {v \in Catalog : Satisfies(pragma[1][1], v, Bound)}}

C8_Witness ==
    /\ Filtering(1)
    /\ pragma[1][1] = OpLt
    /\ Bound \in Catalog
    /\ \A v \in Catalog : ~Precedes(v, Bound)
    /\ result = ReturnList(<<>>)

\* C9: for a single clause with the empty operator, the result is the string
\* major.minor.patch of the clause, not a list, whatever the catalog holds.
C9_ExactVersionIsReturnedAsString ==
    (Filtering(1) /\ pragma[1][1] = OpExact)
    => result = ReturnStr(Text(Bound))

C9_Witness ==
    /\ Filtering(1)
    /\ pragma[1][1] = OpExact
    /\ Bound \notin Catalog
    /\ result = ReturnStr(Text(Bound))

Parsing == call = "resolve_version_from_solidity"

\* The source is a statement of the grammar and nothing else: a string with
\* no indentation whose comparators are operators.
Statement ==
    /\ Parsing
    /\ ~source.written.isfile
    /\ source.written.indent = <<>>
    /\ source.written.first[1] \in Operators
    /\ source.written.second # <<>> => source.written.second[1] \in Operators

FirstWritten == source.written.first

SecondWritten == source.written.second

Complete(clause) == Len(clause) = 4

C12_SingleClauseWhenSecondIsIncomplete ==
    (/\ Statement
     /\ Complete(FirstWritten)
     /\ SecondWritten = <<>> \/ ~Complete(SecondWritten))
    => result = ReturnPragma(<<FirstWritten>>)

C12_Witness ==
    /\ Statement
    /\ FirstWritten = <<OpGe, 0, 6, 12>>
    /\ SecondWritten = <<OpLt, 0, 8>>
    /\ result = ReturnPragma(<< <<OpGe, 0, 6, 12>> >>)

\* C13: parsing a declaration whose first clause has no patch number
\* completes without raising.
C13_MissingPatchDoesNotRaise ==
    (Statement /\ ~Complete(FirstWritten)) => result.kind # "raise"

\* C14: every clause of every result that is not None has one of the six
\* operators.
C14_OnlyTheSixOperators ==
    (Parsing /\ result.kind = "pragma")
    => \A i \in 1..Len(result.pragma) : result.pragma[i][1] \in Operators

\* C15: for a file, the result is that of the first line whose stripped
\* form starts with the keyword, leading whitespace making no difference.
C15_FirstDeclarationLineWithoutItsIndentation ==
    (Parsing /\ source.written.isfile /\ FirstWritten # <<>>)
    => result = resolve_version_from_solidity(
                    RenderStatement(FirstWritten, SecondWritten), FALSE, <<>>)

(***************************************************************************)
(* class Version: strings against objects, comparisons against numbers.    *)
(***************************************************************************)
\* The string is exactly three non-negative integers separated by dots.
ThreeIntegers(text) ==
    LET parts == Split(text)
    IN  /\ Len(parts) = 3
        /\ \A i \in 1..3 :
              parts[i] # <<>> /\ \A j \in 1..Len(parts[i]) : IsDigit(parts[i][j])

\* The (major, minor, patch) a canonical string was written from.
Written3(text) ==
    CHOOSE t \in VersionComponents \X VersionComponents \X VersionComponents :
        FormatVersion(t[1], t[2], t[3]) = text

Comparing == call = "compare"

\* C16: constructing a Version from a string that is not exactly three
\* dot-separated non-negative integers fails and makes no Version.
C16_MalformedStringMakesNoVersion ==
    (call = "Version" /\ ~ThreeIntegers(operands[1])) => result.kind = "raise"

\* C17: the comparisons are the strict total order of the triples as
\* numbers: exactly one of <, ==, > holds, <= is < or ==, >= is > or ==,
\* != is the negation of ==, and < is the numeric lexicographic order (so
\* that 0.4.9 < 0.4.10).
C17_ComparisonsAreTheNumericOrder ==
    Comparing =>
        LET x == Written3(operands[1])
            y == Written3(operands[2])
        IN  /\ result.lt <=> Precedes(x, y)
            /\ result.gt <=> Precedes(y, x)
            /\ result.eq <=> x = y
            /\ \/ result.lt /\ ~result.eq /\ ~result.gt
               \/ ~result.lt /\ result.eq /\ ~result.gt
               \/ ~result.lt /\ ~result.eq /\ result.gt
            /\ result.le <=> (result.lt \/ result.eq)
            /\ result.ge <=> (result.gt \/ result.eq)
            /\ result.ne <=> ~result.eq

C17_Witness ==
    /\ Comparing
    /\ operands = << FormatVersion(0, 4, 9), FormatVersion(0, 4, 10) >>
    /\ result.lt
    /\ ~result.gt

\* C18: a ^ b holds iff the majors are equal, the minors are equal and
\* a.patch >= b.patch; the relation is reflexive and a ^ b implies a >= b.
C18_CaretIsSameSeriesAndPatchAtLeast ==
    Comparing =>
        LET x == Written3(operands[1])
            y == Written3(operands[2])
        IN  /\ result.xor <=> (x[1] = y[1] /\ x[2] = y[2] /\ x[3] >= y[3])
            /\ x = y => result.xor
            /\ result.xor => result.ge

C18_Witness ==
    /\ Comparing
    /\ operands = << FormatVersion(0, 4, 10), FormatVersion(0, 4, 9) >>
    /\ result.xor
    /\ result.ge

(***************************************************************************)
(* The index of a recommendation and its failures.                         *)
(***************************************************************************)
\* C19: after a call the index holds the majors, minors and patches it was
\* built with, whatever the constraint; the catalog is left as it was.
C19_IndexIsLeftAsBuilt ==
    (call = "get_recommended_version" /\ pragma # None)
    => version_dict = _get_version_dict(available.releases)

\* C20: with ">" or "<" and a bound whose own series has no release in the
\* catalog, the recommendation is a version string or fails with
\* NoCompatibleVersionError, and with nothing else.
C20_AbsentSeriesFailsOnlyWithNoCompatibleVersion ==
    (/\ Recommending(OpGt) \/ Recommending(OpLt)
     /\ KnownPatches(Bound[1], Bound[2]) = {})
    => result.kind = "str" \/ result = NoCompatibleVersion

(***************************************************************************)
(* The recommendation against the catalog and against the filter.          *)
(***************************************************************************)
\* The catalog versions of the bound's own series above the bound.
AboveInSeries ==
    {t \in Catalog : t[1] = Bound[1] /\ t[2] = Bound[2] /\ t[3] > Bound[3]}

\* C22: with ">" and a bound below latest, when the catalog holds a version
\* above the bound in the bound's own series, the result is the smallest
\* catalog version above the bound.
C22_SmallestCatalogVersionAbove ==
    (Recommending(OpGt) /\ Precedes(Bound, Latest) /\ AboveInSeries # {})
    => result = ReturnStr(Text(CHOOSE t \in AboveInSeries :
                                   \A o \in AboveInSeries : t[3] <= o[3]))

\* C26: every string that get_recommended_version returns is
\* major.minor.patch with three non-negative integers.
C26_RecommendationIsWellFormed ==
    (call = "get_recommended_version" /\ result.kind = "str")
    => /\ Len(Split(result.str)) = 3
       /\ \A i \in 1..3 :
             /\ Split(result.str)[i] # <<>>
             /\ \A j \in 1..Len(Split(result.str)[i]) : IsDigit(Split(result.str)[i][j])

\* C27: for a constraint whose operators are not empty, a recommended
\* version that is in the catalog is one of the compatible versions of the
\* same constraint.
C27_RecommendedIsCompatible ==
    (/\ call = "get_recommended_version"
     /\ pragma # None
     /\ \A i \in 1..Len(pragma) : pragma[i][1] # OpExact
     /\ result.kind = "str"
     /\ \E i \in 1..Len(available.releases) : available.releases[i] = result.str)
    => LET compatible == get_compatible_versions(pragma, available)
       IN  /\ compatible.kind = "list"
           /\ result.str \in ListSet(compatible.list)

(***************************************************************************)
(* The installer and the manager: what a call leaves on the disk against   *)
(* what it hands back.                                                     *)
(***************************************************************************)
\* The versions ARTIFACT_DIR holds.
Installed == get_installed_versions(artifact_dir)

\* The versions a call of install_solc, uninstall_solc or verify_solc was
\* asked for, "latest" read as the latest release.
Asked(versions) == ReplaceLatest(versions, available.latest)

\* How many times a list holds a version.
Count(list, version) == Cardinality({i \in 1..Len(list) : list[i] = version})

\* C21: when the source holds no version constraint, so that the parser
\* returns None, install_solc_from_solidity downloads nothing, raises
\* nothing and returns None.
C21_NoConstraintIsNothingToDo ==
    (/\ call = "install_solc_from_solidity"
     /\ resolve_version_from_solidity(source.source, source.isfile, source.lines)
            = ReturnNone)
    => /\ result = ReturnNone
       /\ downloads = 0

\* C23: the lists (success, skipped, errors) uninstall_solc returns
\* partition the versions it was asked to remove: every one of them is in
\* exactly one of the three lists, as often as it was asked for.
C23_UninstallListsPartition ==
    (call = "uninstall_solc" /\ result.kind = "lists")
    => \A i \in 1..Len(arguments) :
          Count(result.success, arguments[i]) + Count(result.skipped, arguments[i])
              + Count(result.errors, arguments[i])
          = Count(arguments, arguments[i])

\* C24: when verify_solc(version, reinstall=True) has returned, no version
\* it was asked to verify is left installed with a binary that fails
\* the checksum: a broken one has been downloaded again and replaced.
C24_ReinstallReplacesBroken ==
    (call = "verify_solc" /\ arguments[2] /\ result.kind = "None")
    => \A i \in 1..Len(arguments[1]) :
          Entry(Asked(arguments[1])[i], "broken") \notin artifact_dir

\* A source of the current version that provides a non-empty value.
Provides(read) == read # Absent /\ read[1] # <<>>

\* C25: current_version() takes the version from the first of .solcix,
\* SOLC_VERSION and global-version that provides a non-empty value, returns
\* it with that source when it is installed, and raises NotInstalledError
\* when no source provides one or the one provided is not installed.
C25_CurrentVersionPrecedence ==
    call = "current_version"
    => LET chosen == IF Provides(solcix_file) THEN <<solcix_file[1], ".solcix">>
                     ELSE IF Provides(environ) THEN <<environ[1], "SOLC_VERSION">>
                     ELSE IF Provides(global_version)
                     THEN <<global_version[1], "global-version">>
                     ELSE <<>>
       IN  result = IF chosen = <<>> \/ chosen[1] \notin Installed
                    THEN Raise("NotInstalledError")
                    ELSE ReturnCurrent(chosen[1], chosen[2])

\* C28: a version install_solc_from_solidity returns without raising is
\* installed when it returns.
C28_ReturnedVersionIsInstalled ==
    (call = "install_solc_from_solidity" /\ result.kind = "str")
    => result.str \in Installed

\* C29: every entry of the artifact directory holds a binary that passed
\* the checksum verification: no call leaves a broken one behind.
C29_InstalledPassedChecksum ==
    \A e \in artifact_dir : e[2] # "broken"

\* C30: switch_local_version and switch_global_version with
\* always_install=True end after at most one call of urlretrieve, and not
\* by running out of stack.
C30_SwitchInstallsAtMostOnce ==
    (call \in {"switch_local_version", "switch_global_version"} /\ arguments[2])
    => /\ downloads <= 1
       /\ result # Raise("RecursionError")

====
